---- MODULE Spec2Model ----
(***************************************************************************)
(* Model of the OpenStreetMap tile cache, the map stitcher and the subplot *)
(* grid helper of swisscom_challenge (src/osm_tiles.py, src/visualize.py). *)
(*                                                                         *)
(* Angles given to deg2num are whole degrees; angles computed by num2deg   *)
(* and bboxtile are micro-degrees (fixed point), the transcendental parts  *)
(* of the Web-Mercator projection being tabulated from the formulas of the *)
(* source.  A stored file is the sequence of bytes it holds.               *)
(***************************************************************************)
EXTENDS Integers, Sequences, FiniteSets, TLC

VARIABLES dir, files, calls, gets, last, build, proc, wlog, geo, plot

vars == <<dir, files, calls, gets, last, build, proc, wlog, geo, plot>>

(***************************************************************************)
(* Bounds of the model.                                                    *)
(***************************************************************************)
MaxCalls == 2          \* top-level calls (get_tile, get_stitched_map_and_bbox)
MaxZoom == 2           \* zoom levels 0..MaxZoom of the stitcher and the round trip
MaxGroups == 20        \* number of groups given to plot_tiles_on_map_by_groups

(***************************************************************************)
(* Fixed point.                                                            *)
(***************************************************************************)
Million == 1000 * 1000

\* 2.0 ** zoom
Pow2(k) == 2 ^ k

\* Python's int() on a quotient a / b (b > 0): truncation toward zero.
TruncDiv(a, b) == IF a >= 0 THEN a \div b ELSE -((-a) \div b)

\* asinh(tan(radians(lat))) / pi, in millionths, for lat = -85 .. 85 degrees.
AsinhTanTable ==
   << -996724, -938600, -889428, -846802, -809173, -775481, -744973, -717089,
      -691408, -667599, -645402, -624606, -605039, -586559, -569046, -552400,
      -536533, -521372, -506852, -492918, -479519, -466613, -454161, -442128,
      -430484, -419201, -408254, -397620, -387280, -377213, -367404, -357837,
      -348496, -339370, -330445, -321710, -313156, -304771, -296548, -288476,
      -280550, -272761, -265101, -257566, -250148, -242842, -235642, -228543,
      -221540, -214629, -207804, -201063, -194401, -187813, -181297, -174850,
      -168466, -162145, -155881, -149673, -143518, -137413, -131355, -125341,
      -119370, -113439, -107545, -101687, -95861, -90067, -84302, -78563,
      -72850, -67159, -61490, -55840, -50207, -44590, -38986, -33394,
      -27813, -22240, -16674, -11113, -5556, 0, 5556, 11113,
      16674, 22240, 27813, 33394, 38986, 44590, 50207, 55840,
      61490, 67159, 72850, 78563, 84302, 90067, 95861, 101687,
      107545, 113439, 119370, 125341, 131355, 137413, 143518, 149673,
      155881, 162145, 168466, 174850, 181297, 187813, 194401, 201063,
      207804, 214629, 221540, 228543, 235642, 242842, 250148, 257566,
      265101, 272761, 280550, 288476, 296548, 304771, 313156, 321710,
      330445, 339370, 348496, 357837, 367404, 377213, 387280, 397620,
      408254, 419201, 430484, 442128, 454161, 466613, 479519, 492918,
      506852, 521372, 536533, 552400, 569046, 586559, 605039, 624606,
      645402, 667599, 691408, 717089, 744973, 775481, 809173, 846802,
      889428, 938600, 996724 >>

AsinhTanOverPi(lat_deg) == AsinhTanTable[lat_deg + 86]

\* degrees(atan(sinh(pi * k / 16))), in micro-degrees, for k = -16 .. 16.
AtanSinhTable ==
   << -85051129, -83979259, -82676285, -81093214, -79171335, -76840816,
      -74019543, -70612614, -66513260, -61606396, -55776573, -48922499,
      -40979898, -31952162, -21943046, -11178402, 0, 11178402,
      21943046, 31952162, 40979898, 48922499, 55776573, 61606396,
      66513260, 70612614, 74019543, 76840816, 79171335, 81093214,
      82676285, 83979259, 85051129 >>

\* degrees(atan(sinh(pi * (1 - 2 * y_tile / n)))) for n = 2 ^ zoom dividing
\* 32 and 0 <= y_tile <= n: 1 - 2 * y_tile / n is (16 - y_tile * (32 / n)) / 16.
LatOfRow(y_tile, zoom) ==
    AtanSinhTable[(16 - y_tile * (32 \div Pow2(zoom))) + 17]

\* x_tile / n * 360.0 - 180.0, in micro-degrees.
LonOfCol(x_tile, zoom) ==
    x_tile * ((360 * Million) \div Pow2(zoom)) - 180 * Million

(***************************************************************************)
(* Geo-tile math.                                                          *)
(***************************************************************************)
deg2num(lat_deg, lon_deg, zoom) ==
    LET n == Pow2(zoom)
    IN  [x |-> TruncDiv((lon_deg + 180) * n, 360),
         y |-> TruncDiv((Million - AsinhTanOverPi(lat_deg)) * n, 2 * Million)]

\* num2deg with the sign of the latitude argument lost (2 * y / n - 1).
num2degMirrored(x_tile, y_tile, zoom) ==
    [lat |-> LatOfRow(Pow2(zoom) - y_tile, zoom), lon |-> LonOfCol(x_tile, zoom)]

num2deg(x_tile, y_tile, zoom) ==
    [lat |-> LatOfRow(y_tile, zoom), lon |-> LonOfCol(x_tile, zoom)]

bboxtile(x_tile, y_tile, zoom, nb_x_tiles, nb_y_tiles) ==
    [lon_min |-> LonOfCol(x_tile, zoom),
     lon_max |-> LonOfCol(x_tile + nb_x_tiles, zoom),
     lat_min |-> LatOfRow(y_tile + nb_y_tiles, zoom),
     lat_max |-> LatOfRow(y_tile, zoom)]

\* map_size of get_stitched_map_and_bbox: (rows, cols) = (y span, x span).
MapSizeSwapped(x_tile_min, x_tile_max, y_tile_min, y_tile_max) ==
    <<(x_tile_max - x_tile_min) + 1, (y_tile_max - y_tile_min) + 1>>

MapSize(x_tile_min, x_tile_max, y_tile_min, y_tile_max) ==
    <<(y_tile_max - y_tile_min) + 1, (x_tile_max - x_tile_min) + 1>>

(***************************************************************************)
(* Local storage and the remote tile server.                               *)
(***************************************************************************)
\* A tile key is <<z, x, y>>, the three fields of FILE = 'maps/{z}-{x}-{y}.png'.
Key(x, y, z) == <<z, x, y>>

EmptyFiles == << >>

\* Bodies the tile server may send for a tile (they may differ between requests).
Bodies == { <<1>>, <<2, 3>> }

\* Outcomes of requests.get(url): a response with r.ok, a response without,
\* or no response at all (requests raises ConnectionError).
Responses ==
    { [kind |-> "ok", body |-> b] : b \in Bodies }
      \cup { [kind |-> "notok", body |-> << >>], [kind |-> "connerr", body |-> << >>] }

Return(v) == [kind |-> "return", status |-> v, exc |-> "none"]
Raise(e) == [kind |-> "raise", status |-> 0, exc |-> e]
NoResult == [kind |-> "none", status |-> 0, exc |-> "none"]

\* os.path.exists(file_name)
Exists(fs, key) == key \in DOMAIN fs

\* open(file_name, 'wb'): creates the file or truncates it to no bytes.
OpenWB(fs, key) == (key :> << >>) @@ fs

\* f.write(r.content) on a handle opened in append mode.
WriteAppend(fs, key, body) == [fs EXCEPT ![key] = @ \o body]

\* f.write(r.content) on a handle just opened with 'wb': the bytes go to
\* offset 0 and bytes already beyond them stay.
WriteAt0(fs, key, body) ==
    [fs EXCEPT ![key] = body \o SubSeq(@, Len(body) + 1, Len(@))]

\* get_tile without the os.path.exists test.
get_tileNoCache(fs, d, key, resp) ==
    IF resp.kind = "connerr"
    THEN [files |-> fs, dir |-> d, result |-> Raise("ConnectionError"), reqs |-> 1]
    ELSE IF resp.kind = "ok"
    THEN IF d
         THEN [files |-> WriteAt0(OpenWB(fs, key), key, resp.body), dir |-> d,
               result |-> Return(1), reqs |-> 1]
         ELSE [files |-> fs, dir |-> d, result |-> Raise("FileNotFoundError"), reqs |-> 1]
    ELSE [files |-> fs, dir |-> d, result |-> Return(-1), reqs |-> 1]

\* get_tile that returns 1 without storing the body.
get_tileNoWrite(fs, d, key, resp) ==
    IF Exists(fs, key)
    THEN [files |-> fs, dir |-> d, result |-> Return(0), reqs |-> 0]
    ELSE IF resp.kind = "connerr"
    THEN [files |-> fs, dir |-> d, result |-> Raise("ConnectionError"), reqs |-> 1]
    ELSE IF resp.kind = "ok"
    THEN [files |-> fs, dir |-> d, result |-> Return(1), reqs |-> 1]
    ELSE [files |-> fs, dir |-> d, result |-> Return(-1), reqs |-> 1]

\* get_tile opening the file before looking at r.ok.
get_tileOpenFirst(fs, d, key, resp) ==
    IF Exists(fs, key)
    THEN [files |-> fs, dir |-> d, result |-> Return(0), reqs |-> 0]
    ELSE IF resp.kind = "connerr"
    THEN [files |-> fs, dir |-> d, result |-> Raise("ConnectionError"), reqs |-> 1]
    ELSE IF ~d
    THEN [files |-> fs, dir |-> d, result |-> Raise("FileNotFoundError"), reqs |-> 1]
    ELSE IF resp.kind = "ok"
    THEN [files |-> WriteAt0(OpenWB(fs, key), key, resp.body), dir |-> d,
          result |-> Return(1), reqs |-> 1]
    ELSE [files |-> OpenWB(fs, key), dir |-> d, result |-> Return(-1), reqs |-> 1]

\* get_tile with r.raise_for_status() in place of the else branch.
get_tileRaiseForStatus(fs, d, key, resp) ==
    IF Exists(fs, key)
    THEN [files |-> fs, dir |-> d, result |-> Return(0), reqs |-> 0]
    ELSE IF resp.kind = "connerr"
    THEN [files |-> fs, dir |-> d, result |-> Raise("ConnectionError"), reqs |-> 1]
    ELSE IF resp.kind = "ok"
    THEN IF d
         THEN [files |-> WriteAt0(OpenWB(fs, key), key, resp.body), dir |-> d,
               result |-> Return(1), reqs |-> 1]
         ELSE [files |-> fs, dir |-> d, result |-> Raise("FileNotFoundError"), reqs |-> 1]
    ELSE [files |-> fs, dir |-> d, result |-> Raise("HTTPError"), reqs |-> 1]

\* get_tile writing under FILE.format(x=y, y=x, z=z).
get_tileSwappedName(fs, d, key, resp) ==
    LET name == <<key[1], key[3], key[2]>>
    IN  IF Exists(fs, key)
        THEN [files |-> fs, dir |-> d, result |-> Return(0), reqs |-> 0]
        ELSE IF resp.kind = "connerr"
        THEN [files |-> fs, dir |-> d, result |-> Raise("ConnectionError"), reqs |-> 1]
        ELSE IF resp.kind = "ok"
        THEN IF d
             THEN [files |-> WriteAt0(OpenWB(fs, name), name, resp.body), dir |-> d,
                   result |-> Return(1), reqs |-> 1]
             ELSE [files |-> fs, dir |-> d, result |-> Raise("FileNotFoundError"), reqs |-> 1]
        ELSE [files |-> fs, dir |-> d, result |-> Return(-1), reqs |-> 1]

\* get_tile(x, y, z) as one sequential call: storage fs, folder present d,
\* the server answering resp.  Yields the storage after the call, what the
\* call returned or raised and the number of requests it issued.
get_tile(fs, d, key, resp) ==
    IF Exists(fs, key)
    THEN [files |-> fs, dir |-> d, result |-> Return(0), reqs |-> 0]
    ELSE IF resp.kind = "connerr"
    THEN [files |-> fs, dir |-> d, result |-> Raise("ConnectionError"), reqs |-> 1]
    ELSE IF resp.kind = "ok"
    THEN IF d
         THEN [files |-> WriteAt0(OpenWB(fs, key), key, resp.body), dir |-> d,
               result |-> Return(1), reqs |-> 1]
         ELSE [files |-> fs, dir |-> d, result |-> Raise("FileNotFoundError"), reqs |-> 1]
    ELSE [files |-> fs, dir |-> d, result |-> Return(-1), reqs |-> 1]

\* The record kept of the latest get_tile call: its number, its key, the
\* storage and the folder before and after it, what the server answered, its
\* result and the number of requests it issued.
NoCall ==
    [n |-> 0, key |-> <<0, 0, 0>>, pre |-> EmptyFiles, predir |-> FALSE,
     post |-> EmptyFiles, postdir |-> FALSE, result |-> NoResult, reqs |-> 0,
     resp |-> "none", body |-> << >>]

CallRecord(key, resp, out) ==
    [n |-> gets + 1, key |-> key, pre |-> files, predir |-> dir,
     post |-> out.files, postdir |-> out.dir, result |-> out.result,
     reqs |-> out.reqs, resp |-> resp.kind, body |-> resp.body]

(***************************************************************************)
(* The map stitcher, get_stitched_map_and_bbox, step by step: the derived  *)
(* range and the folder (start), one get_tile per tile of the range, x     *)
(* outer and y inner (fetch), then the reading and the concatenation of    *)
(* the files (stitch).                                                     *)
(***************************************************************************)
\* The extreme corners of a dataframe of data tiles, in whole degrees.
Boxes ==
    { [long_min |-> 6,   long_max |-> 10, lat_min |-> 46,  lat_max |-> 47],
      [long_min |-> -10, long_max |-> 30, lat_min |-> 46,  lat_max |-> 60],
      [long_min |-> 6,   long_max |-> 10, lat_min |-> -10, lat_max |-> 47] }

Zooms == 0 .. MaxZoom

NoOutcome ==
    [kind |-> "none", exc |-> "none", phase |-> "none", image |-> << >>,
     bbox |-> << >>, map_size |-> <<0, 0>>]

IdleBuild ==
    [pc |-> "idle", box |-> << >>, zoom |-> 0, x_tile_min |-> 0, x_tile_max |-> 0,
     y_tile_min |-> 0, y_tile_max |-> 0, map_size |-> <<0, 0>>,
     tiles_status |-> << >>, pos |-> 0, attempted |-> {},
     outcome |-> NoOutcome]

\* The tile fetched at step pos of the nested loops (x outer, y inner).
TileAt(b, pos) ==
    [i |-> pos \div b.map_size[1], j |-> pos % b.map_size[1],
     key |-> Key(b.x_tile_min + (pos \div b.map_size[1]),
                 b.y_tile_min + (pos % b.map_size[1]), b.zoom)]

NbTiles(b) == b.map_size[1] * b.map_size[2]

\* The tiles whose cell of tiles_status holds -1.
FailedTiles(b) ==
    { Key(b.x_tile_min + c[2], b.y_tile_min + c[1], b.zoom) :
        c \in { d \in DOMAIN b.tiles_status : b.tiles_status[d] = -1 } }

RangeKeys(b) ==
    { Key(x, y, b.zoom) : x \in b.x_tile_min .. b.x_tile_max,
                          y \in b.y_tile_min .. b.y_tile_max }

\* The stitch loops of a stitcher that leaves out the tiles it has no file for.
StitchSkipMissing(b, fs) ==
    [kind |-> "return", exc |-> "none", phase |-> "stitch",
     image |-> [i \in 1 .. b.map_size[2] |->
                  [j \in 1 .. b.map_size[1] |->
                     LET k == Key(b.x_tile_min + i - 1, b.y_tile_min + j - 1, b.zoom)
                     IN  IF Exists(fs, k) THEN fs[k] ELSE << >>]],
     bbox |-> bboxtile(b.x_tile_min, b.y_tile_min, b.zoom,
                       b.map_size[2], b.map_size[1]),
     map_size |-> b.map_size]

\* The stitch loops: plt.imread of every file of the range, whatever its
\* status; a missing file raises FileNotFoundError, otherwise the columns
\* (increasing x) of stacked tiles (increasing y), the box and the size.
Stitch(b, fs) ==
    IF \E k \in RangeKeys(b) : ~Exists(fs, k)
    THEN [kind |-> "raise", exc |-> "FileNotFoundError", phase |-> "stitch",
          image |-> << >>, bbox |-> << >>, map_size |-> <<0, 0>>]
    ELSE [kind |-> "return", exc |-> "none", phase |-> "stitch",
          image |-> [i \in 1 .. b.map_size[2] |->
                       [j \in 1 .. b.map_size[1] |->
                          fs[Key(b.x_tile_min + i - 1, b.y_tile_min + j - 1, b.zoom)]]],
          bbox |-> bboxtile(b.x_tile_min, b.y_tile_min, b.zoom,
                            b.map_size[2], b.map_size[1]),
          map_size |-> b.map_size]

\* Lines 151-170: the range from the corners, map_size, the folder, the grid.
BuildStart(box, zoom) ==
    /\ build.pc = "idle"
    /\ calls < MaxCalls
    /\ LET lo == deg2num(box.lat_min, box.long_min, zoom)
           hi == deg2num(box.lat_max, box.long_max, zoom)
           size == MapSize(lo.x, hi.x, hi.y, lo.y)
       IN  build' = [pc |-> "fetch", box |-> box, zoom |-> zoom,
                     x_tile_min |-> lo.x, x_tile_max |-> hi.x,
                     y_tile_min |-> hi.y, y_tile_max |-> lo.y,
                     map_size |-> size,
                     tiles_status |-> [c \in (0 .. size[1] - 1) \X (0 .. size[2] - 1) |-> 0],
                     pos |-> 0, attempted |-> {},
                     outcome |-> NoOutcome]
    /\ dir' = TRUE
    /\ calls' = calls + 1
    /\ UNCHANGED <<files, gets, last, proc, wlog, geo, plot>>

\* Lines 172-175: tiles_status[j, i] = get_tile(...); an exception of
\* get_tile ends the whole call.
BuildFetch(resp) ==
    /\ build.pc = "fetch"
    /\ LET t == TileAt(build, build.pos)
           out == get_tile(files, dir, t.key, resp)
       IN  /\ files' = out.files
           /\ dir' = out.dir
           /\ last' = CallRecord(t.key, resp, out)
           /\ gets' = gets + 1
           /\ build' =
                IF out.result.kind = "raise"
                THEN [build EXCEPT !.pc = "idle",
                                   !.attempted = @ \cup {t.key},
                                   !.outcome = [NoOutcome EXCEPT !.kind = "raise",
                                                                 !.exc = out.result.exc,
                                                                 !.phase = "fetch"]]
                ELSE [build EXCEPT !.tiles_status[<<t.j, t.i>>] = out.result.status,
                                   !.attempted = @ \cup {t.key},
                                   !.pos = @ + 1,
                                   !.pc = IF build.pos + 1 = NbTiles(build)
                                          THEN "stitch" ELSE "fetch"]
    /\ UNCHANGED <<calls, proc, wlog, geo, plot>>

\* Lines 181-194.
BuildStitch ==
    /\ build.pc = "stitch"
    /\ build' = [build EXCEPT !.pc = "idle", !.outcome = Stitch(build, files)]
    /\ UNCHANGED <<dir, files, calls, gets, last, proc, wlog, geo, plot>>

\* A call of get_tile on its own.
GetTile(key, resp) ==
    /\ build.pc = "idle"
    /\ calls < MaxCalls
    /\ LET out == get_tile(files, dir, key, resp)
       IN  /\ files' = out.files
           /\ dir' = out.dir
           /\ last' = CallRecord(key, resp, out)
    /\ gets' = gets + 1
    /\ calls' = calls + 1
    /\ UNCHANGED <<build, proc, wlog, geo, plot>>

\* Keys get_tile is called with on its own.
TileKeys == { Key(1, 0, 1), Key(0, 0, 1), Key(2, 1, 2) }

IdleProcs == [p \in {1, 2} |-> [pc |-> "idle", key |-> <<0, 0, 0>>, resp |-> "none",
                                 body |-> << >>, result |-> NoResult]]
IdleGeo == [pc |-> "idle", lat |-> 0, lon |-> 0, zoom |-> 0, x |-> 0, y |-> 0,
            nw |-> [lat |-> 0, lon |-> 0], se |-> [lat |-> 0, lon |-> 0],
            bbox |-> << >>]
IdlePlot == [pc |-> "idle", nb_groups |-> 0, rows |-> 0, cols |-> 0, drawn |-> {},
             axes |-> {}]

Init ==
    /\ dir \in BOOLEAN
    /\ files = EmptyFiles
    /\ calls = 0
    /\ gets = 0
    /\ last = NoCall
    /\ build = IdleBuild
    /\ proc = IdleProcs
    /\ wlog = << >>
    /\ geo = IdleGeo
    /\ plot = IdlePlot

Next ==
    \/ \E key \in TileKeys, resp \in Responses : GetTile(key, resp)
    \/ \E box \in Boxes, zoom \in Zooms : BuildStart(box, zoom)
    \/ \E resp \in Responses : BuildFetch(resp)
    \/ BuildStitch

Spec == Init /\ [][Next]_vars

(***************************************************************************)
(* Two processes calling get_tile at the same time on the shared folder,   *)
(* each call cut at its system calls: the existence test, the request, the *)
(* open and the write (flushed at the latest when the file is closed).     *)
(***************************************************************************)
Procs == {1, 2}

ConcKeys == { Key(1, 0, 1), Key(0, 0, 1) }

\* Line 15: process p enters get_tile.
ConcCall(p, key) ==
    /\ proc[p].pc = "idle"
    /\ proc' = [proc EXCEPT ![p].pc = "check", ![p].key = key]
    /\ UNCHANGED <<dir, files, calls, gets, last, build, wlog, geo, plot>>

\* Line 25 (and 38): os.path.exists(file_name).
ConcCheck(p) ==
    /\ proc[p].pc = "check"
    /\ proc' = IF Exists(files, proc[p].key)
               THEN [proc EXCEPT ![p].pc = "done", ![p].result = Return(0)]
               ELSE [proc EXCEPT ![p].pc = "request"]
    /\ UNCHANGED <<dir, files, calls, gets, last, build, wlog, geo, plot>>

\* Lines 28-29 (and 34-35): requests.get(url) and the test of r.ok.
ConcRequest(p, resp) ==
    /\ proc[p].pc = "request"
    /\ proc' = IF resp.kind = "connerr"
               THEN [proc EXCEPT ![p].pc = "done", ![p].resp = resp.kind,
                                 ![p].result = Raise("ConnectionError")]
               ELSE IF resp.kind = "ok"
               THEN [proc EXCEPT ![p].pc = "open", ![p].resp = resp.kind,
                                 ![p].body = resp.body]
               ELSE [proc EXCEPT ![p].pc = "done", ![p].resp = resp.kind,
                                 ![p].result = Return(-1)]
    /\ UNCHANGED <<dir, files, calls, gets, last, build, wlog, geo, plot>>

\* Line 30: open(file_name, 'wb').
ConcOpen(p) ==
    /\ proc[p].pc = "open"
    /\ IF dir
       THEN /\ files' = OpenWB(files, proc[p].key)
            /\ proc' = [proc EXCEPT ![p].pc = "write"]
       ELSE /\ files' = files
            /\ proc' = [proc EXCEPT ![p].pc = "done",
                                    ![p].result = Raise("FileNotFoundError")]
    /\ UNCHANGED <<dir, calls, gets, last, build, wlog, geo, plot>>

\* Lines 31-32: f.write(r.content), the close of the file and return 1.
ConcWrite(p) ==
    /\ proc[p].pc = "write"
    /\ files' = WriteAt0(files, proc[p].key, proc[p].body)
    /\ wlog' = Append(wlog, [p |-> p, key |-> proc[p].key, body |-> proc[p].body])
    /\ proc' = [proc EXCEPT ![p].pc = "done", ![p].result = Return(1)]
    /\ UNCHANGED <<dir, calls, gets, last, build, geo, plot>>

NextConc ==
    \/ \E p \in Procs, key \in ConcKeys : ConcCall(p, key)
    \/ \E p \in Procs : ConcCheck(p)
    \/ \E p \in Procs, resp \in Responses : ConcRequest(p, resp)
    \/ \E p \in Procs : ConcOpen(p)
    \/ \E p \in Procs : ConcWrite(p)

SpecConc == Init /\ [][NextConc]_vars

(***************************************************************************)
(* The round trip deg2num, num2deg on points of the documented domain.     *)
(***************************************************************************)
Lats == { -84, -80, -79, -67, -66, -41, -40, 0, 40, 41, 47, 66, 67, 79, 80, 84 }
Lons == { -180, -136, -135, -91, -90, -46, -45, -1, 0, 8, 44, 45, 89, 90, 134, 135, 179 }

GeoDeg2Num(lat, lon, zoom) ==
    /\ geo.pc = "idle"
    /\ LET t == deg2num(lat, lon, zoom)
       IN  geo' = [geo EXCEPT !.pc = "tile", !.lat = lat, !.lon = lon,
                              !.zoom = zoom, !.x = t.x, !.y = t.y]
    /\ UNCHANGED <<dir, files, calls, gets, last, build, proc, wlog, plot>>

GeoNum2Deg ==
    /\ geo.pc = "tile"
    /\ geo' = [geo EXCEPT !.pc = "corner",
                          !.nw = num2deg(geo.x, geo.y, geo.zoom),
                          !.se = num2deg(geo.x + 1, geo.y + 1, geo.zoom),
                          !.bbox = bboxtile(geo.x, geo.y, geo.zoom, 1, 1)]
    /\ UNCHANGED <<dir, files, calls, gets, last, build, proc, wlog, plot>>

NextGeo ==
    \/ \E lat \in Lats, lon \in Lons, zoom \in Zooms : GeoDeg2Num(lat, lon, zoom)
    \/ GeoNum2Deg

SpecGeo == Init /\ [][NextGeo]_vars

(***************************************************************************)
(* plot_tiles_on_map_by_groups: the grid of subplots and the groups drawn. *)
(***************************************************************************)
\* int(np.sqrt(nb_groups))
IntSqrt(n) == CHOOSE d \in 0 .. n : d * d <= n /\ n < (d + 1) * (d + 1)

get_subplot_grid_size(nb_groups) ==
    [rows |-> IntSqrt(nb_groups), cols |-> IntSqrt(nb_groups) + 1]

\* Lines 93-95: the grid and its axes, numbered as axes.flatten() numbers them.
PlotStart(nb_groups) ==
    /\ plot.pc = "idle"
    /\ LET g == get_subplot_grid_size(nb_groups)
       IN  plot' = [pc |-> "draw", nb_groups |-> nb_groups, rows |-> g.rows,
                    cols |-> g.cols, drawn |-> {},
                    axes |-> 0 .. (g.rows * g.cols - 1)]
    /\ UNCHANGED <<dir, files, calls, gets, last, build, proc, wlog, geo>>

\* Lines 96-98: zip(groups, axes.flatten()) pairs group i with axis i and
\* stops at the shorter of the two.
PlotDraw ==
    /\ plot.pc = "draw"
    /\ LET i == Cardinality(plot.drawn)
       IN  plot' = IF i < plot.nb_groups /\ i \in plot.axes
                   THEN [plot EXCEPT !.drawn = @ \cup {i}]
                   ELSE [plot EXCEPT !.pc = "remove"]
    /\ UNCHANGED <<dir, files, calls, gets, last, build, proc, wlog, geo>>

\* Lines 99-103: the axes beyond the groups are removed.
PlotRemove ==
    /\ plot.pc = "remove"
    /\ plot' = [plot EXCEPT !.pc = "done",
                            !.axes = { a \in @ : a < plot.nb_groups }]
    /\ UNCHANGED <<dir, files, calls, gets, last, build, proc, wlog, geo>>

NextPlot ==
    \/ \E n \in 1 .. MaxGroups : PlotStart(n)
    \/ PlotDraw
    \/ PlotRemove

SpecPlot == Init /\ [][NextPlot]_vars

(***************************************************************************)
(* Properties of the tile cache and of the stitcher, checked under Spec.   *)
(***************************************************************************)
\* A step that is a get_tile call, on its own or from the stitcher's loop.
IsGet == gets' = gets + 1

\* The latest call asked the server for a tile it had no file for.
Missed == last.n > 0 /\ ~Exists(last.pre, last.key)

\* C1 as stated, for two calls that both return a status: of two successive
\* get_tile calls on the same key, whatever the server answers, at most one
\* issues a request and the second returns 0.
C1_TwoCallsOneRequest ==
    [][ (IsGet /\ last.n > 0 /\ last'.key = last.key
          /\ last.result.kind = "return" /\ last'.result.kind = "return")
          => (last.reqs + last'.reqs <= 1 /\ last'.result = Return(0)) ]_vars

\* C1 amended: when the first of two successive get_tile calls on the same
\* key returns 1 or 0, the two calls issue at most one request in total and
\* the second returns 0.
C1_TwoCallsOneRequestOnceStored ==
    [][ (IsGet /\ last.n > 0 /\ last'.key = last.key
          /\ last.result \in {Return(1), Return(0)})
          => (last.reqs + last'.reqs <= 1 /\ last'.result = Return(0)) ]_vars

\* The second of two calls found the file the first one had stored.
C1_Witness ==
    /\ gets = 2 /\ calls = 2
    /\ last.result = Return(0) /\ last.reqs = 0
    /\ last.pre[last.key] \in Bodies

\* C2: a stored file is never removed or changed by a later step, and a
\* get_tile call on its key returns 0, issues no request and leaves the
\* whole storage as it was.
C2_CachedForever ==
    [][ /\ \A k \in DOMAIN files : k \in DOMAIN files' /\ files'[k] = files[k]
        /\ (IsGet /\ Exists(files, last'.key))
             => (last'.result = Return(0) /\ last'.reqs = 0 /\ files' = files) ]_vars

\* After a whole stitch, a call found a file of the stitched range in storage.
C2_Witness ==
    /\ calls = 2 /\ build.outcome.kind = "return" /\ gets = NbTiles(build) + 1
    /\ last.key \in RangeKeys(build)
    /\ Exists(last.pre, last.key) /\ last.result = Return(0)
    /\ Cardinality(DOMAIN files) >= 2

C4_FailedTileIsFatal ==
    /\ (FailedTiles(build) # {}) => build.outcome.kind # "return"
    /\ (build.pc = "stitch") => build.attempted = RangeKeys(build)
    /\ (build.pc = "idle" /\ build.outcome.phase = "stitch" /\ FailedTiles(build) # {})
         => /\ build.outcome.kind = "raise"
            /\ build.outcome.exc = "FileNotFoundError"
            /\ build.attempted = RangeKeys(build)
            /\ build.outcome.image = << >> /\ build.outcome.bbox = << >>
    /\ (build.outcome.exc = "FileNotFoundError")
         => (build.outcome.phase = "stitch" /\ FailedTiles(build) # {})

\* A stitch of several tiles, one fetched and one failed, ended by the
\* missing file.
C4_Witness ==
    /\ build.pc = "idle" /\ build.outcome.kind = "raise"
    /\ build.outcome.phase = "stitch"
    /\ FailedTiles(build) # {} /\ FailedTiles(build) # RangeKeys(build)
    /\ NbTiles(build) >= 2

\* The tile range of the box of the running or finished stitch.
RangeOfBox(b) ==
    [x_min |-> deg2num(b.box.lat_min, b.box.long_min, b.zoom).x,
     x_max |-> deg2num(b.box.lat_max, b.box.long_max, b.zoom).x,
     y_min |-> deg2num(b.box.lat_max, b.box.long_max, b.zoom).y,
     y_max |-> deg2num(b.box.lat_min, b.box.long_min, b.zoom).y]

\* C5 as stated: the size returned is (x_max - x_min + 1, y_max - y_min + 1)
\* and is the shape of the status grid.
C5_GridSizeXY ==
    (build.outcome.kind = "return")
      => LET r == RangeOfBox(build)
         IN  /\ build.outcome.map_size = <<r.x_max - r.x_min + 1, r.y_max - r.y_min + 1>>
             /\ DOMAIN build.tiles_status
                  = (0 .. r.x_max - r.x_min) \X (0 .. r.y_max - r.y_min)

\* C5 amended: whenever the stitcher returns, the size returned is
\* (y_max - y_min + 1, x_max - x_min + 1), rows first, and is the shape of
\* the status grid.
C5_GridSizeRowsCols ==
    (build.outcome.kind = "return")
      => LET r == RangeOfBox(build)
         IN  /\ build.outcome.map_size = <<r.y_max - r.y_min + 1, r.x_max - r.x_min + 1>>
             /\ DOMAIN build.tiles_status
                  = (0 .. r.y_max - r.y_min) \X (0 .. r.x_max - r.x_min)
             /\ Len(build.outcome.image) = r.x_max - r.x_min + 1
             /\ \A i \in DOMAIN build.outcome.image :
                    Len(build.outcome.image[i]) = r.y_max - r.y_min + 1

\* A returned map that is wider than tall.
C5_Witness ==
    /\ build.outcome.kind = "return"
    /\ build.outcome.map_size[1] < build.outcome.map_size[2]

\* C6 as stated: a request that fails, by its response or by the connection,
\* makes get_tile return -1.
C6_FailureNeverRaises ==
    (Missed /\ last.resp \in {"notok", "connerr"}) => last.result = Return(-1)

\* C6 amended: a response that is not ok makes get_tile return -1 and raise
\* nothing; a connection error is raised by get_tile as ConnectionError and
\* ends a running stitch in its fetch loop, which no other failure does.
C6_OnlyBadResponseIsSwallowed ==
    /\ (Missed /\ last.resp = "notok") => last.result = Return(-1)
    /\ (Missed /\ last.resp = "connerr") => last.result = Raise("ConnectionError")
    /\ (build.outcome.phase = "fetch")
         => (build.outcome.kind = "raise" /\ build.outcome.exc = "ConnectionError")
    /\ (build.pc = "stitch")
         => \A c \in DOMAIN build.tiles_status : build.tiles_status[c] \in {-1, 0, 1}

\* A stitch whose second tile failed by its response went on to the stitch loops.
C6_Witness ==
    /\ build.pc = "stitch" /\ last.resp = "notok" /\ Missed
    /\ last.result = Return(-1) /\ NbTiles(build) >= 2

\* C7 as stated: get_tile creates the folder when it is absent, and a
\* successful fetch ends with exactly one new file, the key's, and returns 1.
C7_FetchCreatesFolder ==
    (Missed /\ last.resp = "ok")
      => /\ last.postdir
         /\ last.result = Return(1)
         /\ last.post = (last.key :> last.body) @@ last.pre

\* C7 amended: get_tile never creates the folder (the stitcher does, before
\* its first fetch); with the folder present a successful fetch ends with
\* exactly one new file, the key's, holding the body, and returns 1; with
\* the folder absent it raises FileNotFoundError and stores nothing.
C7_FetchNeedsFolder ==
    /\ last.postdir = last.predir
    /\ (build.pc # "idle") => dir
    /\ (Missed /\ last.resp = "ok" /\ last.predir)
         => /\ last.result = Return(1) /\ last.reqs = 1
            /\ last.post = (last.key :> last.body) @@ last.pre
    /\ (Missed /\ last.resp = "ok" /\ ~last.predir)
         => /\ last.result = Raise("FileNotFoundError")
            /\ last.post = last.pre

\* A successful fetch into a storage that held another file.
C7_Witness ==
    /\ Missed /\ last.resp = "ok" /\ last.result = Return(1)
    /\ last.pre # EmptyFiles /\ Cardinality(DOMAIN files) = 2
    /\ build.pc = "idle" /\ build.outcome.kind = "none"

(***************************************************************************)
(* Properties of concurrent get_tile calls, checked under SpecConc.        *)
(***************************************************************************)
\* Both processes went through the test, the request and the write for one key.
BothWrote ==
    /\ \A p \in Procs : proc[p].pc = "done" /\ proc[p].result = Return(1)
    /\ proc[1].key = proc[2].key

IsPrefix(a, b) == Len(a) <= Len(b) /\ SubSeq(b, 1, Len(a)) = a

\* C8 as stated: after both processes have written the file of one key, the
\* key is present and the file holds the body written by the last writer.
C8_LastWriterBodyComplete ==
    BothWrote
      => /\ Exists(files, proc[1].key)
         /\ files[proc[1].key] = wlog[Len(wlog)].body

\* C8 amended: after both processes have written the file of one key, the
\* key is present and the file begins with the whole body written by the
\* last writer; it is exactly that body unless the other body is longer,
\* and then at most the tail of the other body follows it.
C8_LastWriterBodyFirst ==
    BothWrote
      => /\ Exists(files, proc[1].key)
         /\ Len(wlog) = 2
         /\ LET b == wlog[2].body
                o == wlog[1].body
                f == files[proc[1].key]
            IN  /\ IsPrefix(b, f)
                /\ f \in {b, b \o SubSeq(o, Len(b) + 1, Len(o))}
                /\ (Len(o) <= Len(b)) => f = b

\* Both processes passed the test, requested and wrote different bodies.
C8_Witness ==
    /\ BothWrote
    /\ Len(wlog) = 2 /\ wlog[1].body # wlog[2].body /\ wlog[1].p # wlog[2].p

(***************************************************************************)
(* Property of the round trip, checked under SpecGeo.                      *)
(***************************************************************************)
\* C9: for |lat| < 85 and lon in [-180, 180), num2deg(deg2num(lat, lon, z), z)
\* is the north-west corner of a tile of the grid that contains (lat, lon):
\* it lies less than one tile width west and one tile height north of it.
C9_RoundTripWithinTile ==
    (geo.pc = "corner")
      => LET n == Pow2(geo.zoom)
             lat == geo.lat * Million
             lon == geo.lon * Million
         IN  /\ geo.x \in 0 .. n - 1 /\ geo.y \in 0 .. n - 1
             /\ geo.nw.lon <= lon /\ lon < geo.se.lon
             /\ geo.nw.lat >= lat /\ lat > geo.se.lat
             /\ lon - geo.nw.lon < (360 * Million) \div n
             /\ geo.nw.lat - lat < geo.nw.lat - geo.se.lat
             /\ geo.bbox = [lon_min |-> geo.nw.lon, lon_max |-> geo.se.lon,
                            lat_min |-> geo.se.lat, lat_max |-> geo.nw.lat]

\* A round trip at the deepest zoom that lands strictly inside a tile of
\* the northern half.
C9_Witness ==
    /\ geo.pc = "corner" /\ geo.zoom = MaxZoom
    /\ geo.lat = 47 /\ geo.lon = 8
    /\ geo.nw.lat > geo.lat * Million /\ geo.nw.lon < geo.lon * Million

(***************************************************************************)
(* Property of the subplot grid, checked under SpecPlot.                   *)
(***************************************************************************)
\* C10: the grid has at least nb_groups cells, and every group is drawn.
C10_EveryGroupDrawn ==
    (plot.pc = "done")
      => /\ plot.rows * plot.cols >= plot.nb_groups
         /\ plot.drawn = 0 .. (plot.nb_groups - 1)

====
